---- MODULE Spec2Model ----
(***************************************************************************)
(* Model of draco::ExpertEncoder (src/draco/compression/expert_encode.cc): *)
(* the encoder selector that, given a point cloud or a mesh and an option  *)
(* bag, picks a concrete encoder, binds the geometry to it and delegates   *)
(* the encode call.                                                        *)
(*                                                                         *)
(* One EncodeToBuffer call is a sequence of steps of the single caller     *)
(* thread (pc): dispatch, encoder selection, delegation, return.  Setters  *)
(* run only between calls (the class is single-threaded, non-reentrant).   *)
(***************************************************************************)
EXTENDS Integers, Sequences, FiniteSets, TLC

\* ------------------------------------------------------------------------
\* Bounds of the model
\* ------------------------------------------------------------------------
MaxAttributes == 2

\* ------------------------------------------------------------------------
\* Identifiers of compression_shared.h, and the values the inputs range over
\* ------------------------------------------------------------------------
POINT_CLOUD_SEQUENTIAL_ENCODING == 0
POINT_CLOUD_KD_TREE_ENCODING == 1
MESH_SEQUENTIAL_ENCODING == 0
MESH_EDGEBREAKER_ENCODING == 1

NullPtr == "nullptr"
GeometryRef == "geometry"

AttributeTypes == {"POSITION", "GENERIC"}
ComponentCounts == {2, 3}
DataTypes == {"DT_FLOAT32", "DT_UINT32", "DT_INT32"}

\* A PointAttribute: semantic type, number of components, element data type.
Attributes ==
  [attribute_type : AttributeTypes, num_components : ComponentCounts,
   data_type : DataTypes]

\* Attributes used for the attributes after the first one of an input.
TrailingAttributes ==
  { [attribute_type |-> "POSITION", num_components |-> 3, data_type |-> "DT_UINT32"],
    [attribute_type |-> "GENERIC", num_components |-> 2, data_type |-> "DT_INT32"] }

\* The point clouds handed to the constructor: 0..MaxAttributes attributes.
PointClouds ==
  UNION { { f \in [1..n -> Attributes] : \A i \in 2..n : f[i] \in TrailingAttributes }
          : n \in 0..MaxAttributes }

\* The meshes handed to the constructor (a mesh is a point cloud with faces).
Meshes == { f \in PointClouds : \A i \in 1..Len(f) : f[i] \in TrailingAttributes }

EncodingMethods == {0, 1, 2}
Speeds == {0, 10}
QuantizationBits == {0, 11}
PredictionSchemes == {0}
AttributeIds == {0, 1}
\* Contents of the buffer the caller hands to EncodeToBuffer.
InitialBuffers == { <<>>, << [by |-> "caller", complete |-> TRUE] >> }

\* Status values (Status::OK, Status(Status::ERROR, msg)).
OkStatus == "OK"
InvalidInput == "Invalid input geometry."
InvalidEncodingMethod == "Invalid encoding method."
EncoderFailure == "Encoder failure."
NoStatus == "none"

VARIABLES
  geometry,       \* the caller's geometry object: [is_mesh, attributes]
  point_cloud_,   \* ExpertEncoder::point_cloud_ (pointer)
  mesh_,          \* ExpertEncoder::mesh_ (pointer)
  options,        \* EncoderBase::options(): [global, attribute]
  pc,             \* position of the caller inside EncodeToBuffer
  encoder,        \* the local std::unique_ptr<...Encoder> encoder
  out_buffer,     \* the EncoderBuffer *out_buffer of the running call
  status,         \* the Status the running call returns
  entry_buffer,   \* content of out_buffer when the call was entered
  created,        \* encoders constructed by the running call
  calls,          \* calls made on the constructed encoder
  att0_read       \* how pc.attribute(0) was evaluated by the running call

vars == <<geometry, point_cloud_, mesh_, options, pc, encoder, out_buffer,
          status, entry_buffer, created, calls, att0_read>>

\* ------------------------------------------------------------------------
\* The option bag (EncoderOptions): keys that were never set are absent and
\* every read takes a default.
\* ------------------------------------------------------------------------
EmptyOptions == [global |-> <<>>, attribute |-> <<>>]

DefaultOptions == EmptyOptions

Put(f, k, v) == [x \in (DOMAIN f) \cup {k} |-> IF x = k THEN v ELSE f[x]]

GetGlobalInt(o, key, default) ==
  IF key \in DOMAIN o.global THEN o.global[key] ELSE default

SetGlobalInt(o, key, v) == [o EXCEPT !.global = Put(o.global, key, v)]

SetGlobalBool(o, key, v) == [o EXCEPT !.global = Put(o.global, key, v)]

GetAttributeInt(o, att_id, key, default) ==
  IF <<att_id, key>> \in DOMAIN o.attribute THEN o.attribute[<<att_id, key>>]
  ELSE default

SetAttributeInt(o, att_id, key, v) ==
  [o EXCEPT !.attribute = Put(o.attribute, <<att_id, key>>, v)]

Max(a, b) == IF a >= b THEN a ELSE b

GetSpeed(o) ==
  LET encoding_speed == GetGlobalInt(o, "encoding_speed", -1)
      decoding_speed == GetGlobalInt(o, "decoding_speed", -1)
      max_speed == Max(encoding_speed, decoding_speed)
  IN IF max_speed = -1 THEN 5 ELSE max_speed

\* EncoderBase, the base class the setters forward to.
BaseReset == DefaultOptions

BaseResetTo(new_options) == new_options

BaseSetSpeedOptions(o, encoding_speed, decoding_speed) ==
  SetGlobalInt(SetGlobalInt(o, "encoding_speed", encoding_speed),
               "decoding_speed", decoding_speed)

BaseSetEncodingMethod(o, encoding_method) ==
  SetGlobalInt(o, "encoding_method", encoding_method)

\* Option bags handed to Reset(const EncoderOptions &).
ResetOptions ==
  { SetAttributeInt(SetGlobalInt(EmptyOptions, "encoding_method",
                                 POINT_CLOUD_KD_TREE_ENCODING),
                    0, "quantization_bits", 11) }

\* ------------------------------------------------------------------------
\* Constructors
\* ------------------------------------------------------------------------
\* ExpertEncoder(const PointCloud &): point_cloud_(&point_cloud), mesh_(nullptr)
ExpertEncoderPointCloud(point_cloud) ==
  /\ geometry = [is_mesh |-> FALSE, attributes |-> point_cloud]
  /\ point_cloud_ = GeometryRef
  /\ mesh_ = NullPtr

\* ExpertEncoder(const Mesh &): point_cloud_(&mesh), mesh_(&mesh)
ExpertEncoderMesh(mesh) ==
  /\ geometry = [is_mesh |-> TRUE, attributes |-> mesh]
  /\ point_cloud_ = GeometryRef
  /\ mesh_ = GeometryRef

Init ==
  /\ \/ \E point_cloud \in PointClouds : ExpertEncoderPointCloud(point_cloud)
     \/ \E mesh \in Meshes : ExpertEncoderMesh(mesh)
  /\ options = DefaultOptions
  /\ pc = "idle"
  /\ encoder = NullPtr
  /\ out_buffer = <<>>
  /\ status = NoStatus
  /\ entry_buffer = <<>>
  /\ created = 0
  /\ calls = <<>>
  /\ att0_read = "none"

\* ------------------------------------------------------------------------
\* Selection of the point-cloud encoder (EncodePointCloudToBuffer)
\* ------------------------------------------------------------------------
\* Variant: the speed/attribute-count heuristic applies only when no method is set.
KdTreeGate_UnsetOnly(num_attributes, o) ==
  LET encoding_method == GetGlobalInt(o, "encoding_method", -1)
  IN \/ encoding_method = POINT_CLOUD_KD_TREE_ENCODING
     \/ (encoding_method = -1 /\ GetSpeed(o) < 10 /\ num_attributes = 1)

\* The condition that guards the k-d-tree block.
KdTreeGate(num_attributes, o) ==
  LET encoding_method == GetGlobalInt(o, "encoding_method", -1)
  IN \/ encoding_method = POINT_CLOUD_KD_TREE_ENCODING
     \/ (GetSpeed(o) < 10 /\ num_attributes = 1)

\* Variant: quantization_bits = 0 counts as quantization enabled (< instead of <=).
CreateKdTreeEncoder_ZeroBitsEnabled(att, o) ==
  LET c1 == ~(att.attribute_type # "POSITION" \/ att.num_components # 3)
      c2 == c1 /\ ~(att.data_type # "DT_FLOAT32" /\ att.data_type # "DT_UINT32")
      c3 == c2 /\ ~(att.data_type = "DT_FLOAT32"
                    /\ GetAttributeInt(o, 0, "quantization_bits", -1) < 0)
  IN c3

\* create_kd_tree_encoder after the three checks on the first attribute.
CreateKdTreeEncoder(att, o) ==
  LET c0 == TRUE
      c1 == IF att.attribute_type # "POSITION" \/ att.num_components # 3
            THEN FALSE ELSE c0
      c2 == IF c1 /\ att.data_type # "DT_FLOAT32" /\ att.data_type # "DT_UINT32"
            THEN FALSE ELSE c1
      c3 == IF c2 /\ att.data_type = "DT_FLOAT32"
               /\ GetAttributeInt(o, 0, "quantization_bits", -1) <= 0
            THEN FALSE ELSE c2
  IN c3

\* Variant: the k-d-tree encoder is constructed before the checks and is still
\* held when the explicit request is rejected.
KdTreeBlock_ConstructFirst(att, o) ==
  LET encoding_method == GetGlobalInt(o, "encoding_method", -1)
  IN IF CreateKdTreeEncoder(att, o)
     THEN [encoder |-> "PointCloudKdTreeEncoder", created |-> 1, status |-> NoStatus]
     ELSE IF encoding_method = POINT_CLOUD_KD_TREE_ENCODING
     THEN [encoder |-> "PointCloudKdTreeEncoder", created |-> 1,
           status |-> InvalidEncodingMethod]
     ELSE [encoder |-> NullPtr, created |-> 0, status |-> NoStatus]

\* What the block does once the first attribute was read as att: the encoder
\* held by the unique_ptr afterwards, and the error returned if any.
KdTreeBlock(att, o) ==
  LET encoding_method == GetGlobalInt(o, "encoding_method", -1)
  IN IF CreateKdTreeEncoder(att, o)
     THEN [encoder |-> "PointCloudKdTreeEncoder", created |-> 1, status |-> NoStatus]
     ELSE IF encoding_method = POINT_CLOUD_KD_TREE_ENCODING
     THEN [encoder |-> NullPtr, created |-> 0, status |-> InvalidEncodingMethod]
     ELSE [encoder |-> NullPtr, created |-> 0, status |-> NoStatus]

\* if (!encoder) encoder = new PointCloudSequentialEncoder()
DefaultChoice(r) ==
  IF r.status = NoStatus /\ r.encoder = NullPtr
  THEN [r EXCEPT !.encoder = "PointCloudSequentialEncoder", !.created = r.created + 1]
  ELSE r

\* pc.attribute(0): the attribute when it exists.  On a point cloud without
\* attributes the read is out of range (undefined behaviour): the call
\* crashes or goes on with whatever the read produced.
ReadAttribute0(attributes) ==
  IF Len(attributes) >= 1
  THEN { [read |-> "valid", crashed |-> FALSE, att |-> attributes[1]] }
  ELSE { [read |-> "out_of_range", crashed |-> c, att |-> a] :
           c \in BOOLEAN, a \in Attributes }

\* Every way the selection can end for the given point cloud and options.
PointCloudOutcomes(attributes, o) ==
  IF KdTreeGate(Len(attributes), o)
  THEN { IF a.crashed
         THEN [read |-> a.read, crashed |-> TRUE, encoder |-> NullPtr,
               created |-> 0, status |-> NoStatus]
         ELSE LET r == DefaultChoice(KdTreeBlock(a.att, o))
              IN [read |-> a.read, crashed |-> FALSE, encoder |-> r.encoder,
                  created |-> r.created, status |-> r.status]
         : a \in ReadAttribute0(attributes) }
  ELSE { LET r == DefaultChoice([encoder |-> NullPtr, created |-> 0,
                                 status |-> NoStatus])
         IN [read |-> "none", crashed |-> FALSE, encoder |-> r.encoder,
             created |-> r.created, status |-> r.status] }

\* ------------------------------------------------------------------------
\* Selection of the mesh encoder (EncodeMeshToBuffer)
\* ------------------------------------------------------------------------
\* Variant: the two branches of the speed test are swapped.
ResolveMeshMethod_SwappedSpeed(o) ==
  LET encoding_method == GetGlobalInt(o, "encoding_method", -1)
  IN IF encoding_method = -1
     THEN IF GetSpeed(o) = 10 THEN MESH_EDGEBREAKER_ENCODING
          ELSE MESH_SEQUENTIAL_ENCODING
     ELSE encoding_method

ResolveMeshMethod(o) ==
  LET encoding_method == GetGlobalInt(o, "encoding_method", -1)
  IN IF encoding_method = -1
     THEN IF GetSpeed(o) = 10 THEN MESH_SEQUENTIAL_ENCODING
          ELSE MESH_EDGEBREAKER_ENCODING
     ELSE encoding_method

\* Variant: the test is on the sequential identifier, edge-breaker is the default.
MeshEncoderFor_TestSequential(encoding_method) ==
  IF encoding_method = MESH_SEQUENTIAL_ENCODING
  THEN "MeshSequentialEncoder"
  ELSE "MeshEdgeBreakerEncoder"

MeshEncoderFor(encoding_method) ==
  IF encoding_method = MESH_EDGEBREAKER_ENCODING
  THEN "MeshEdgeBreakerEncoder"
  ELSE "MeshSequentialEncoder"

\* ------------------------------------------------------------------------
\* EncodeToBuffer, step by step
\* ------------------------------------------------------------------------
EncodeToBuffer(buffer) ==
  /\ pc = "idle"
  /\ out_buffer' = buffer
  /\ entry_buffer' = buffer
  /\ IF point_cloud_ = NullPtr
     THEN status' = InvalidInput /\ pc' = "return"
     ELSE IF mesh_ = NullPtr
     THEN status' = status /\ pc' = "EncodePointCloudToBuffer"
     ELSE status' = status /\ pc' = "EncodeMeshToBuffer"
  /\ UNCHANGED <<geometry, point_cloud_, mesh_, options, encoder, created,
                 calls, att0_read>>

EncodePointCloudToBuffer ==
  /\ pc = "EncodePointCloudToBuffer"
  /\ \E r \in PointCloudOutcomes(geometry.attributes, options) :
       /\ att0_read' = r.read
       /\ encoder' = r.encoder
       /\ created' = r.created
       /\ status' = r.status
       /\ pc' = IF r.crashed THEN "crashed"
                ELSE IF r.status # NoStatus THEN "return"
                ELSE "delegate"
  /\ UNCHANGED <<geometry, point_cloud_, mesh_, options, out_buffer,
                 entry_buffer, calls>>

EncodeMeshToBuffer ==
  /\ pc = "EncodeMeshToBuffer"
  /\ encoder' = MeshEncoderFor(ResolveMeshMethod(options))
  /\ created' = created + 1
  /\ pc' = "delegate"
  /\ UNCHANGED <<geometry, point_cloud_, mesh_, options, out_buffer, status,
                 entry_buffer, calls, att0_read>>

\* encoder->SetPointCloud(pc) / encoder->SetMesh(m), then
\* return encoder->Encode(options(), out_buffer): the collaborator appends to
\* the buffer and its status is passed through.
Delegate(ok) ==
  /\ pc = "delegate"
  /\ calls' = calls \o << (IF mesh_ = NullPtr THEN "SetPointCloud" ELSE "SetMesh"),
                         "Encode" >>
  /\ out_buffer' = Append(out_buffer, [by |-> encoder, complete |-> ok])
  /\ status' = IF ok THEN OkStatus ELSE EncoderFailure
  /\ pc' = "return"
  /\ UNCHANGED <<geometry, point_cloud_, mesh_, options, encoder, entry_buffer,
                 created, att0_read>>

\* The call returns: the unique_ptr goes out of scope and the locals are gone.
Return ==
  /\ pc = "return"
  /\ pc' = "idle"
  /\ encoder' = NullPtr
  /\ out_buffer' = <<>>
  /\ status' = NoStatus
  /\ entry_buffer' = <<>>
  /\ created' = 0
  /\ calls' = <<>>
  /\ att0_read' = "none"
  /\ UNCHANGED <<geometry, point_cloud_, mesh_, options>>

\* ------------------------------------------------------------------------
\* Configuration setters
\* ------------------------------------------------------------------------
Locals == <<pc, encoder, out_buffer, status, entry_buffer, created, calls, att0_read>>

ResetTo(new_options) ==
  /\ pc = "idle"
  /\ options' = BaseResetTo(new_options)
  /\ UNCHANGED <<geometry, point_cloud_, mesh_, Locals>>

Reset ==
  /\ pc = "idle"
  /\ options' = BaseReset
  /\ UNCHANGED <<geometry, point_cloud_, mesh_, Locals>>

SetSpeedOptions(encoding_speed, decoding_speed) ==
  /\ pc = "idle"
  /\ options' = BaseSetSpeedOptions(options, encoding_speed, decoding_speed)
  /\ UNCHANGED <<geometry, point_cloud_, mesh_, Locals>>

\* Variant: the option is always written to attribute 0.
SetAttributeQuantization_Attribute0(attribute_id, quantization_bits) ==
  /\ pc = "idle"
  /\ options' = SetAttributeInt(options, 0, "quantization_bits", quantization_bits)
  /\ UNCHANGED <<geometry, point_cloud_, mesh_, Locals>>

SetAttributeQuantization(attribute_id, quantization_bits) ==
  /\ pc = "idle"
  /\ options' = SetAttributeInt(options, attribute_id, "quantization_bits",
                                quantization_bits)
  /\ UNCHANGED <<geometry, point_cloud_, mesh_, Locals>>

SetUseBuiltInAttributeCompression(enabled) ==
  /\ pc = "idle"
  /\ options' = SetGlobalBool(options, "use_built_in_attribute_compression", enabled)
  /\ UNCHANGED <<geometry, point_cloud_, mesh_, Locals>>

SetEncodingMethod(encoding_method) ==
  /\ pc = "idle"
  /\ options' = BaseSetEncodingMethod(options, encoding_method)
  /\ UNCHANGED <<geometry, point_cloud_, mesh_, Locals>>

SetAttributePredictionScheme(attribute_id, prediction_scheme_method) ==
  /\ pc = "idle"
  /\ options' = SetAttributeInt(options, attribute_id, "prediction_scheme",
                                prediction_scheme_method)
  /\ UNCHANGED <<geometry, point_cloud_, mesh_, Locals>>

Next ==
  \/ \E buffer \in InitialBuffers : EncodeToBuffer(buffer)
  \/ EncodePointCloudToBuffer
  \/ EncodeMeshToBuffer
  \/ \E ok \in BOOLEAN : Delegate(ok)
  \/ Return
  \/ \E new_options \in ResetOptions : ResetTo(new_options)
  \/ Reset
  \/ \E e \in Speeds, d \in Speeds : SetSpeedOptions(e, d)
  \/ \E id \in AttributeIds, bits \in QuantizationBits :
       SetAttributeQuantization(id, bits)
  \/ \E enabled \in BOOLEAN : SetUseBuiltInAttributeCompression(enabled)
  \/ \E m \in EncodingMethods : SetEncodingMethod(m)
  \/ \E id \in AttributeIds, m \in PredictionSchemes :
       SetAttributePredictionScheme(id, m)

Spec == Init /\ [][Next]_vars

\* ------------------------------------------------------------------------
\* Vocabulary of the properties
\* ------------------------------------------------------------------------
EncodingMethodOption == GetGlobalInt(options, "encoding_method", -1)

NumAttributes == Len(geometry.attributes)

PointCloudBound == point_cloud_ # NullPtr /\ mesh_ = NullPtr

MeshBound == mesh_ # NullPtr

SelectorErrors == {InvalidInput, InvalidEncodingMethod}

\* The selection of the running call is over (pc = "return": the call is
\* about to hand its status to the caller).
Selected == pc \in {"delegate", "return"}

\* The first attribute exists and is POSITION, 3 components, uint32 or
\* float32 with a positive quantization_bits option for attribute 0.
FirstAttributeCompatible ==
  /\ NumAttributes >= 1
  /\ geometry.attributes[1].attribute_type = "POSITION"
  /\ geometry.attributes[1].num_components = 3
  /\ \/ geometry.attributes[1].data_type = "DT_UINT32"
     \/ /\ geometry.attributes[1].data_type = "DT_FLOAT32"
        /\ <<0, "quantization_bits">> \in DOMAIN options.attribute
        /\ options.attribute[<<0, "quantization_bits">>] > 0

\* speed below the maximum tier, exactly one attribute, and it is compatible
HeuristicPicksKdTree ==
  GetSpeed(options) < 10 /\ NumAttributes = 1 /\ FirstAttributeCompatible

DelegatedTo(e, setter) ==
  /\ pc = "return"
  /\ encoder = e
  /\ calls = <<setter, "Encode">>

\* ------------------------------------------------------------------------
\* C1: an explicit k-d-tree request on a point cloud with exactly 2
\* attributes fails with InvalidEncodingMethod, no encoder is delegated to and
\* the buffer is left unwritten, whatever the attributes and options are.
\* ------------------------------------------------------------------------
C1_ExplicitKdTreeTwoAttributesFails ==
  (PointCloudBound /\ NumAttributes = 2
     /\ EncodingMethodOption = POINT_CLOUD_KD_TREE_ENCODING /\ Selected)
  => /\ pc = "return"
     /\ status = InvalidEncodingMethod
     /\ encoder = NullPtr
     /\ calls = <<>>
     /\ out_buffer = entry_buffer

\* ------------------------------------------------------------------------
\* C2 (as stated): on a mesh, an explicit encoding_method that is neither of
\* the two mesh identifiers (nor -1) is rejected with InvalidEncodingMethod
\* and no mesh encoder is constructed or delegated to.
\* ------------------------------------------------------------------------
C2_UnknownMeshMethodRejected ==
  (MeshBound /\ EncodingMethodOption \notin {-1, MESH_SEQUENTIAL_ENCODING,
                                             MESH_EDGEBREAKER_ENCODING}
     /\ Selected)
  => /\ pc = "return"
     /\ status = InvalidEncodingMethod
     /\ created = 0
     /\ encoder = NullPtr
     /\ calls = <<>>

\* C2 (amended): on a mesh, an explicit encoding_method that is neither of
\* the two mesh identifiers (nor -1) is not rejected: no selector-level error
\* is raised and the sequential mesh encoder is constructed and delegated to.
C2_UnknownMeshMethodSequential ==
  (MeshBound /\ EncodingMethodOption \notin {-1, MESH_SEQUENTIAL_ENCODING,
                                             MESH_EDGEBREAKER_ENCODING}
     /\ Selected)
  => /\ encoder = "MeshSequentialEncoder"
     /\ created = 1
     /\ status \notin SelectorErrors
     /\ (pc = "return" => calls = <<"SetMesh", "Encode">>)

C2_Witness ==
  /\ MeshBound
  /\ EncodingMethodOption = 2
  /\ DelegatedTo("MeshSequentialEncoder", "SetMesh")
  /\ status = OkStatus

\* ------------------------------------------------------------------------
\* C3: with an explicit k-d-tree request on a point cloud, every call either
\* delegates to the k-d-tree encoder or returns InvalidEncodingMethod, the
\* latter exactly when the first attribute fails the compatibility check; the
\* sequential point-cloud encoder is never used.
\* ------------------------------------------------------------------------
C3_ExplicitKdTreeNeverDowngraded ==
  (PointCloudBound /\ EncodingMethodOption = POINT_CLOUD_KD_TREE_ENCODING
     /\ pc \in {"delegate", "return", "crashed"})
  => /\ pc # "crashed"
     /\ encoder # "PointCloudSequentialEncoder"
     /\ IF FirstAttributeCompatible
        THEN /\ encoder = "PointCloudKdTreeEncoder"
             /\ status \notin SelectorErrors
             /\ (pc = "return" => calls = <<"SetPointCloud", "Encode">>)
        ELSE /\ pc = "return"
             /\ status = InvalidEncodingMethod
             /\ encoder = NullPtr
             /\ calls = <<>>

\* ------------------------------------------------------------------------
\* C4: with no explicit method, a point cloud gets the k-d-tree encoder iff
\* speed < 10, there is exactly one attribute and it is POSITION with 3
\* components of type uint32, or float32 with positive quantization_bits for
\* attribute 0; otherwise it gets the sequential encoder; the call never
\* fails at selector level.
\* ------------------------------------------------------------------------
C4_UnsetMethodSelection ==
  (PointCloudBound /\ EncodingMethodOption = -1)
  => /\ pc # "crashed"
     /\ status \notin SelectorErrors
     /\ Selected =>
          /\ encoder = IF HeuristicPicksKdTree THEN "PointCloudKdTreeEncoder"
                       ELSE "PointCloudSequentialEncoder"
          /\ created = 1
          /\ (pc = "return" => calls = <<"SetPointCloud", "Encode">>)

C4_Witness ==
  /\ PointCloudBound
  /\ EncodingMethodOption = -1
  /\ NumAttributes = 1
  /\ geometry.attributes[1] = [attribute_type |-> "POSITION", num_components |-> 3,
                               data_type |-> "DT_FLOAT32"]
  /\ GetAttributeInt(options, 0, "quantization_bits", -1) = 11
  /\ GetSpeed(options) < 10
  /\ DelegatedTo("PointCloudKdTreeEncoder", "SetPointCloud")

\* ------------------------------------------------------------------------
\* C5: a mesh always goes to a mesh encoder: with no explicit method the
\* sequential mesh encoder at speed 10 and edge-breaker at any other speed;
\* with one of the two mesh identifiers set, that encoder whatever the speed.
\* ------------------------------------------------------------------------
C5_MeshSelection ==
  (MeshBound /\ Selected)
  => /\ encoder \in {"MeshSequentialEncoder", "MeshEdgeBreakerEncoder"}
     /\ created = 1
     /\ status \notin SelectorErrors
     /\ (pc = "return" => calls = <<"SetMesh", "Encode">>)
     /\ (EncodingMethodOption = -1 =>
           encoder = IF GetSpeed(options) = 10 THEN "MeshSequentialEncoder"
                     ELSE "MeshEdgeBreakerEncoder")
     /\ (EncodingMethodOption = MESH_SEQUENTIAL_ENCODING =>
           encoder = "MeshSequentialEncoder")
     /\ (EncodingMethodOption = MESH_EDGEBREAKER_ENCODING =>
           encoder = "MeshEdgeBreakerEncoder")

C5_Witness ==
  /\ MeshBound
  /\ EncodingMethodOption = -1
  /\ GetSpeed(options) = 10
  /\ DelegatedTo("MeshSequentialEncoder", "SetMesh")

\* ------------------------------------------------------------------------
\* C6 (as stated): on a point cloud, an explicit encoding_method that is
\* neither point-cloud identifier never fails at selector level and always
\* delegates to the sequential point-cloud encoder, never to k-d-tree.
\* ------------------------------------------------------------------------
C6_UnknownMethodSequential ==
  (PointCloudBound /\ EncodingMethodOption \notin {-1, POINT_CLOUD_SEQUENTIAL_ENCODING,
                                                   POINT_CLOUD_KD_TREE_ENCODING})
  => /\ pc # "crashed"
     /\ status \notin SelectorErrors
     /\ Selected => encoder = "PointCloudSequentialEncoder"

\* C6 (amended): on a point cloud, an explicit encoding_method that is
\* neither point-cloud identifier is treated as if no method were set: the
\* call never fails at selector level, and it delegates to the k-d-tree
\* encoder when speed < 10 and the single attribute is compatible, to the
\* sequential point-cloud encoder otherwise.
C6_UnknownMethodAsUnset ==
  (PointCloudBound /\ EncodingMethodOption \notin {-1, POINT_CLOUD_SEQUENTIAL_ENCODING,
                                                   POINT_CLOUD_KD_TREE_ENCODING})
  => /\ pc # "crashed"
     /\ status \notin SelectorErrors
     /\ Selected =>
          /\ encoder = IF HeuristicPicksKdTree THEN "PointCloudKdTreeEncoder"
                       ELSE "PointCloudSequentialEncoder"
          /\ created = 1
          /\ (pc = "return" => calls = <<"SetPointCloud", "Encode">>)

C6_Witness ==
  /\ PointCloudBound
  /\ EncodingMethodOption = 2
  /\ HeuristicPicksKdTree
  /\ DelegatedTo("PointCloudKdTreeEncoder", "SetPointCloud")

\* ------------------------------------------------------------------------
\* C7: a call that returns a selector-raised error (InvalidInput,
\* InvalidEncodingMethod) has constructed no encoder, has called neither
\* SetPointCloud/SetMesh nor Encode, and leaves the buffer as it was on entry.
\* ------------------------------------------------------------------------
C7_SelectorErrorBeforeConstruction ==
  (pc = "return" /\ status \in SelectorErrors)
  => /\ created = 0
     /\ encoder = NullPtr
     /\ calls = <<>>
     /\ out_buffer = entry_buffer

C7_Witness ==
  /\ pc = "return"
  /\ status = InvalidEncodingMethod
  /\ entry_buffer # <<>>
  /\ att0_read = "valid"

\* ------------------------------------------------------------------------
\* C8: SetAttributeQuantization(id, bits) changes only the quantization_bits
\* option of attribute id (every other attribute option and all global
\* options stay); on a point cloud, for id # 0 the set of outcomes of the
\* next encoder selection is the same before and after.
\* ------------------------------------------------------------------------
C8_QuantizationFrame ==
  [][ \A id \in AttributeIds, bits \in QuantizationBits :
        SetAttributeQuantization(id, bits) =>
          /\ options'.global = options.global
          /\ DOMAIN options'.attribute =
               DOMAIN options.attribute \cup {<<id, "quantization_bits">>}
          /\ options'.attribute[<<id, "quantization_bits">>] = bits
          /\ \A k \in DOMAIN options.attribute :
               k # <<id, "quantization_bits">> =>
                 options'.attribute[k] = options.attribute[k]
          /\ (id # 0 /\ PointCloudBound) =>
               PointCloudOutcomes(geometry.attributes, options')
                 = PointCloudOutcomes(geometry.attributes, options) ]_vars

\* Quantization was set for attribute 1 only, the sole attribute is a float
\* position, and the call still selects the sequential encoder.
C8_Witness ==
  /\ PointCloudBound
  /\ <<1, "quantization_bits">> \in DOMAIN options.attribute
  /\ options.attribute[<<1, "quantization_bits">>] = 11
  /\ <<0, "quantization_bits">> \notin DOMAIN options.attribute
  /\ <<1, "prediction_scheme">> \in DOMAIN options.attribute
  /\ NumAttributes = 1
  /\ geometry.attributes[1] = [attribute_type |-> "POSITION", num_components |-> 3,
                               data_type |-> "DT_FLOAT32"]
  /\ GetSpeed(options) < 10
  /\ EncodingMethodOption = -1
  /\ DelegatedTo("PointCloudSequentialEncoder", "SetPointCloud")

\* ------------------------------------------------------------------------
\* C9: no encoder exists between calls, a call constructs at most one
\* encoder, and the outcome of a call (the encoder selected or the
\* selector-level error) is a function of the bound geometry and of the
\* configuration at the time of the call.
\* ------------------------------------------------------------------------
C9_OutcomeDeterminedByConfiguration ==
  /\ (pc = "idle" => encoder = NullPtr /\ created = 0 /\ calls = <<>>)
  /\ created <= 1
  /\ pc # "crashed"
  /\ Selected =>
       IF MeshBound
       THEN encoder = IF \/ EncodingMethodOption = MESH_EDGEBREAKER_ENCODING
                         \/ (EncodingMethodOption = -1 /\ GetSpeed(options) # 10)
                      THEN "MeshEdgeBreakerEncoder" ELSE "MeshSequentialEncoder"
       ELSE IF EncodingMethodOption = POINT_CLOUD_KD_TREE_ENCODING
       THEN IF FirstAttributeCompatible
            THEN encoder = "PointCloudKdTreeEncoder"
            ELSE encoder = NullPtr /\ status = InvalidEncodingMethod
       ELSE encoder = IF HeuristicPicksKdTree THEN "PointCloudKdTreeEncoder"
                      ELSE "PointCloudSequentialEncoder"

\* ------------------------------------------------------------------------
\* C10: the selection reads attribute 0 only of a point cloud that has at
\* least one attribute, so that every call ends in a Result.
\* ------------------------------------------------------------------------
C10_Attribute0ReadInRange ==
  /\ att0_read # "out_of_range"
  /\ pc # "crashed"

====
